---------------------------- MODULE Spec2Model ----------------------------
(***************************************************************************)
(* CheckPointX backend: the relational store of app/models.py, the offline *)
(* sync reconciler of the /sync endpoint (its logic lives in routes.py;    *)
(* SyncService.process_sync_data in app/services.py only raises            *)
(* NotImplementedError), the per-field template encryption of the User     *)
(* model with the cipher of app/config.py, and the NotificationService.    *)
(***************************************************************************)
EXTENDS Integers, Sequences, FiniteSets, Bags, TLC

(***************************************************************************)
(* Bounds of the model.                                                    *)
(***************************************************************************)
MaxBatch == 2
MaxRaceBatch == 1
MaxUsers == 2
MaxPhone == 1
MaxEmail == 1
MaxTs == 1

\* Python None / SQL NULL.
NoVal == 0

Phones == 1..MaxPhone
Emails == 1..MaxEmail
UUIDs == 1..MaxUsers
Timestamps == 1..MaxTs
\* The two callers of /sync; caller p submits device uuid p.
Callers == {1, 2}

\* Rows of the events and sessions tables (never written by the sync core).
EventRows == {1}
SessionRows == {1}
\* A NewRegistration names no Event: its Registration is for the Event the
\* devices are deployed at.
DeviceEvent == CHOOSE e \in EventRows : TRUE
\* Ids a CheckInRecord may reference: the rows above and one absent id each.
EventIds == EventRows \cup {2}
SessionIds == SessionRows \cup {2}

VARIABLES
    \* ---- the store (app/models.py) ----
    users,            \* users table: users[i] is the row with id i
    registrations,    \* registrations table: a bag of rows
    check_ins,        \* check_ins table: a bag of rows
    offline_devices,  \* device uuids of the offline_devices table
    \* ---- one sync call per caller ----
    pc,               \* where caller p's sync call stands
    dev,              \* the device_id of the call (NoVal: missing)
    batch,            \* the kinds of the submitted records, in batch order
    idx,              \* position in the processing order
    cur,              \* the record being resolved
    found,            \* what the record's lookup found
    results,          \* per submitted localId: the resolution
    prev,             \* per phone: what a returned call last reported for a record carrying it
    notified,         \* the check-ins send_checkin_notifications was called for
    \* ---- template encryption (app/config.py, User properties) ----
    env,              \* the process environment read by config.py
    cipher,           \* config._fernet_cipher
    loaded,           \* config.py has been imported
    col,              \* the two fingerprint_template columns of one User
    given,            \* per property: the last assignment (value, cipher seen)
    warned,           \* per property: model_logger.warning called by the last assignment
    logged,           \* per property: model_logger.error called by the last assignment
    got,              \* per property: what a read since the last assignment and restart returned
    \* ---- FingerprintService, SyncService.__init__ (app/services.py) ----
    fp,               \* FingerprintService().cipher of the instance built
    svc,              \* SyncService().fingerprint_service: its cipher, if it has one
    enc,              \* the last encrypt_template call: argument and result
    dec,              \* the last decrypt_template call: argument and result
    \* ---- NotificationService ----
    npc,              \* where send_checkin_notifications stands
    ncfg,             \* the service as constructed
    nuser,            \* the user being notified
    handed,           \* calls made to a collaborator (provider, database), in order
    nerrors           \* errors logged by the service during the call

storeVars == <<users, registrations, check_ins, offline_devices>>
callVars == <<pc, dev, batch, idx, cur, found, results, prev, notified>>
syncVars == <<users, registrations, check_ins, offline_devices,
              pc, dev, batch, idx, cur, found, results, prev, notified>>
fpVars == <<fp, svc, enc, dec>>
cryptoVars == <<env, cipher, loaded, col, given, warned, logged, got,
                fp, svc, enc, dec>>
notifyVars == <<npc, ncfg, nuser, handed, nerrors>>
vars == <<users, registrations, check_ins, offline_devices,
          pc, dev, batch, idx, cur, found, results, prev, notified,
          env, cipher, loaded, col, given, warned, logged, got,
          fp, svc, enc, dec,
          npc, ncfg, nuser, handed, nerrors>>

Min(S) == CHOOSE x \in S : \A y \in S : x <= y

(***************************************************************************)
(* The store: unique constraints of app/models.py.  A NULL never conflicts.*)
(***************************************************************************)
\* Mutant: the constraint uq_user_phone is not declared.
uq_user_phone_dropped(rows, phone) == TRUE

\* UniqueConstraint('phone', name='uq_user_phone')
uq_user_phone(rows, phone) ==
    phone = NoVal \/ \A i \in DOMAIN rows : rows[i].phone # phone

\* email = Column(..., unique=True)
uq_user_email(rows, email) ==
    email = NoVal \/ \A i \in DOMAIN rows : rows[i].email # email

\* Mutant: fallback_id declared without unique=True.
uq_user_fallback_id_dropped(rows, fb) == TRUE

\* fallback_id = Column(..., nullable=False, unique=True)
uq_user_fallback_id(rows, fb) ==
    fb # NoVal /\ \A i \in DOMAIN rows : rows[i].fallback_id # fb

\* Mutant: the constraint uq_user_event_registration is not declared.
uq_user_event_registration_dropped(rows, u, e) == TRUE

\* UniqueConstraint('user_id', 'event_id', name='uq_user_event_registration')
uq_user_event_registration(rows, u, e) ==
    ~BagIn([user_id |-> u, event_id |-> e], rows)

\* A User row as the sync core creates it: the template columns stay NULL.
\* Mutant: the phone column is not written.
UserRow_phone_dropped(phone, email, fb) ==
    [phone |-> NoVal, email |-> email, fallback_id |-> fb]

UserRow(phone, email, fb) ==
    [phone |-> phone, email |-> email, fallback_id |-> fb]

\* A users INSERT commits only if every unique constraint admits the row.
UserInsertOK(rows, phone, email) ==
    uq_user_phone(rows, phone) /\ uq_user_email(rows, email)

\* default=lambda: str(uuid4()): a random UUID; the row commits only with a
\* value the unique constraint admits.
FallbackDefaults(rows) == {fb \in UUIDs : uq_user_fallback_id(rows, fb)}

RegistrationRow(u, e) == [user_id |-> u, event_id |-> e]

\* Mutant: created_at_local is left at its column default, NULL.
CheckInRow_no_local_time(u, s, e, d, ts) ==
    [user_id |-> u, session_id |-> s, event_id |-> e, device_id |-> d,
     is_synced |-> TRUE, created_at_local |-> NoVal]

\* Mutant: is_synced is left at its column default, False.
CheckInRow_unsynced(u, s, e, d, ts) ==
    [user_id |-> u, session_id |-> s, event_id |-> e, device_id |-> d,
     is_synced |-> FALSE, created_at_local |-> ts]

\* A CheckIn row written by the reconciler.
CheckInRow(u, s, e, d, ts) ==
    [user_id |-> u, session_id |-> s, event_id |-> e, device_id |-> d,
     is_synced |-> TRUE, created_at_local |-> ts]

(***************************************************************************)
(* The reconciler.                                                         *)
(***************************************************************************)
\* A SyncResult entry: the status, the resolved server user id, and what the
\* record carried (a NewRegistration's phone, a CheckInRecord's in-batch
\* userRef); note is the rejection reason or the conflict that was recovered.
Unset == [status |-> "none", user |-> NoVal, note |-> "",
          phone |-> NoVal, localRef |-> NoVal]

Resolved(status, u, note, r) ==
    [status |-> status, user |-> u, note |-> note,
     phone |-> r.phone, localRef |-> r.localRef]

Kinds == {"reg", "ck"}

BatchesUpTo(n) == UNION {[1..k -> Kinds] : k \in 0..n}

IndicesOf(b, k) == {i \in DOMAIN b : b[i] = k}

RECURSIVE Ascending(_)
Ascending(S) ==
    IF S = {} THEN <<>> ELSE <<Min(S)>> \o Ascending(S \ {Min(S)})

\* Mutant: records are resolved in plain batch order.
BatchOrder(b) == Ascending(DOMAIN b)

\* All NewRegistrations first, in batch order, then the CheckInRecords.
ProcessingOrder(b) ==
    Ascending(IndicesOf(b, "reg")) \o Ascending(IndicesOf(b, "ck"))

\* The batch index of the record caller p is resolving.
Here(p) == ProcessingOrder(batch[p])[idx[p]]

PcAt(b, k) ==
    IF k > Len(b) THEN "done"
    ELSE IF b[ProcessingOrder(b)[k]] = "reg" THEN "reg_lookup" ELSE "ck_lookup"

\* Transactions about to insert a User: the lookup found none.
PendingInserts ==
    Cardinality({p \in Callers : pc[p] = "reg_write" /\ found[p].user = NoVal})

\* The users table is kept to MaxUsers rows: a NewRegistration of an unknown
\* user is only submitted while there is room for its row.
RoomFor(u) == u # NoVal \/ Len(users) + PendingInserts < MaxUsers

UsersBy(rows, field, v) == {i \in DOMAIN rows : rows[i][field] = v}

\* Look up an existing User by phone (if present) else by email (if present)
\* else by fallback id (if the client has one).
LookupUser(rows, r) ==
    LET hits == IF r.phone # NoVal THEN UsersBy(rows, "phone", r.phone)
                ELSE IF r.email # NoVal THEN UsersBy(rows, "email", r.email)
                ELSE IF r.fallback # NoVal THEN UsersBy(rows, "fallback_id", r.fallback)
                ELSE {}
    IN IF hits = {} THEN NoVal ELSE Min(hits)

\* After a unique-constraint violation: the row the record collides with.
ConflictingUser(rows, r) ==
    LET hits == (IF r.phone # NoVal THEN UsersBy(rows, "phone", r.phone) ELSE {})
                \cup (IF r.email # NoVal THEN UsersBy(rows, "email", r.email) ELSE {})
    IN IF hits = {} THEN NoVal ELSE Min(hits)

HasRegistration(rows, u, e) == BagIn(RegistrationRow(u, e), rows)

\* userRef: a server user id, a fallback id, or a localId of this batch.
UserRefs(b) ==
    [kind : {"server"}, v : 1..MaxUsers] \cup [kind : {"fallback"}, v : UUIDs]
    \cup [kind : {"local"}, v : DOMAIN b]

ResolveUser(ref, b, res, rows) ==
    CASE ref.kind = "server" -> IF ref.v \in DOMAIN rows THEN ref.v ELSE NoVal
      [] ref.kind = "fallback" ->
            LET hits == UsersBy(rows, "fallback_id", ref.v)
            IN IF hits = {} THEN NoVal ELSE Min(hits)
      [] ref.kind = "local" ->
            IF b[ref.v] = "reg" /\ res[ref.v].status \in {"created", "already_existed"}
            THEN res[ref.v].user ELSE NoVal

\* A CheckIn already stored for the same (user, session, clientTimestamp).
ExistingCheckIn(rows, u, s, ts) ==
    \E c \in BagToSet(rows) : /\ c.user_id = u
                              /\ c.session_id = s
                              /\ c.created_at_local = ts

NoRecord == [kind |-> "none"]
NoFind == [user |-> NoVal, row |-> FALSE]

\* Mutant: a record that cannot be resolved fails the whole call.
AfterRejection_abort(b, k) == "failed"

\* Failure policy: a rejected record does not abort the batch; the call goes
\* on with the next record.
AfterRejection(b, k) == PcAt(b, k)

\* Record i of caller p's batch is settled as res; the call moves on.
Settle(p, i, res) ==
    /\ results' = [results EXCEPT ![p][i] = res]
    /\ idx' = [idx EXCEPT ![p] = idx[p] + 1]
    /\ pc' = [pc EXCEPT ![p] = IF res.status = "rejected"
                                THEN AfterRejection(batch[p], idx[p] + 1)
                                ELSE PcAt(batch[p], idx[p] + 1)]
    /\ cur' = [cur EXCEPT ![p] = NoRecord]
    /\ found' = [found EXCEPT ![p] = NoFind]

\* Mutant: the top-level input is not validated.
DeviceMissing_unchecked(d) == FALSE

\* Malformed top-level input: the payload carries no device_id.
DeviceMissing(d) == d = NoVal

\* The call starts: a missing device_id fails it; otherwise the device is
\* known or newly registered and the first record is taken up.
Begin(p, d, b) ==
    /\ pc[p] = "idle"
    /\ dev' = [dev EXCEPT ![p] = d]
    /\ batch' = [batch EXCEPT ![p] = b]
    /\ results' = [results EXCEPT ![p] = [i \in DOMAIN b |-> Unset]]
    /\ IF DeviceMissing(d)
       THEN /\ pc' = [pc EXCEPT ![p] = "failed"]
            /\ UNCHANGED <<offline_devices, idx>>
       ELSE /\ offline_devices' = offline_devices \cup {d}
            /\ idx' = [idx EXCEPT ![p] = 1]
            /\ pc' = [pc EXCEPT ![p] = PcAt(b, 1)]
    /\ UNCHANGED <<users, registrations, check_ins, cur, found, prev, notified>>
    /\ UNCHANGED <<cryptoVars, notifyVars>>

\* One sync call at a time, with batches of up to MaxBatch records.
StartSync(p) ==
    /\ \A q \in Callers : pc[q] = "idle"
    /\ \E d \in {NoVal, p}, b \in BatchesUpTo(MaxBatch) : Begin(p, d, b)

\* Overlapping sync calls from different devices.
StartSyncConcurrent(p) ==
    \E d \in {NoVal, p}, b \in BatchesUpTo(MaxRaceBatch) : Begin(p, d, b)

\* A NewRegistration is read and its user looked up.
RegLookup(p) ==
    /\ pc[p] = "reg_lookup"
    /\ \E ph \in {NoVal} \cup Phones, em \in {NoVal} \cup Emails,
          fb \in {NoVal} \cup UUIDs :
          LET r == [kind |-> "reg", phone |-> ph, email |-> em,
                    event |-> DeviceEvent, localRef |-> NoVal]
              u == LookupUser(users, [phone |-> ph, email |-> em, fallback |-> fb])
          IN /\ RoomFor(u)
             /\ cur' = [cur EXCEPT ![p] = r]
             /\ found' = [found EXCEPT ![p] =
                   [user |-> u,
                    row |-> u # NoVal /\ HasRegistration(registrations, u, DeviceEvent)]]
             /\ pc' = [pc EXCEPT ![p] = "reg_write"]
             /\ UNCHANGED <<idx, results>>
    /\ UNCHANGED <<storeVars, dev, batch, prev, notified>>
    /\ UNCHANGED <<cryptoVars, notifyVars>>

\* The Registration of (u, e) is created unless present; a unique-constraint
\* violation means another transaction created it meanwhile.
EnsureRegistration(u, e, seen) ==
    IF seen
    THEN /\ UNCHANGED registrations
    ELSE IF uq_user_event_registration(registrations, u, e)
         THEN registrations' = registrations (+) SetToBag({RegistrationRow(u, e)})
         ELSE UNCHANGED registrations

\* The NewRegistration's transaction: an existing user is an idempotent
\* re-submission; otherwise the User and its Registration are created, and a
\* unique-constraint violation is re-resolved as the existing user.
RegWrite(p) ==
    /\ pc[p] = "reg_write"
    /\ LET r == cur[p]
           i == Here(p)
       IN IF found[p].user # NoVal
          THEN /\ EnsureRegistration(found[p].user, r.event, found[p].row)
               /\ Settle(p, i, Resolved("already_existed", found[p].user,
                     IF ~found[p].row /\ HasRegistration(registrations, found[p].user, r.event)
                     THEN "registration_conflict" ELSE "", r))
               /\ UNCHANGED users
          ELSE IF UserInsertOK(users, r.phone, r.email)
          THEN \E fb \in FallbackDefaults(users) :
               /\ users' = Append(users, UserRow(r.phone, r.email, fb))
               /\ registrations' =
                     registrations (+) SetToBag({RegistrationRow(Len(users) + 1, r.event)})
               /\ Settle(p, i, Resolved("created", Len(users) + 1, "", r))
          ELSE LET c == ConflictingUser(users, r)
               IN /\ EnsureRegistration(c, r.event, HasRegistration(registrations, c, r.event))
                  /\ Settle(p, i, Resolved("already_existed", c, "user_conflict", r))
                  /\ UNCHANGED users
    /\ UNCHANGED <<check_ins, offline_devices, dev, batch, prev, notified>>
    /\ UNCHANGED <<cryptoVars, notifyVars>>

\* A CheckInRecord is read: its user is resolved, its Session and Event must
\* exist, and a stored CheckIn with the same key is looked up.
CkLookup(p) ==
    /\ pc[p] = "ck_lookup"
    /\ \E ref \in UserRefs(batch[p]), s \in SessionIds, e \in EventIds, ts \in Timestamps :
          LET u == ResolveUser(ref, batch[p], results[p], users)
              r == [kind |-> "ck", phone |-> NoVal, email |-> NoVal, event |-> e,
                    localRef |-> IF ref.kind = "local" THEN ref.v ELSE NoVal,
                    user |-> u, session |-> s, ts |-> ts]
          IN IF u = NoVal
             THEN Settle(p, Here(p), Resolved("rejected", NoVal, "user_not_found", r))
             ELSE IF s \notin SessionRows
             THEN Settle(p, Here(p), Resolved("rejected", u, "session_not_found", r))
             ELSE IF e \notin EventRows
             THEN Settle(p, Here(p), Resolved("rejected", u, "event_not_found", r))
             ELSE /\ cur' = [cur EXCEPT ![p] = r]
                  /\ found' = [found EXCEPT ![p] =
                        [user |-> u, row |-> ExistingCheckIn(check_ins, u, s, ts)]]
                  /\ pc' = [pc EXCEPT ![p] = "ck_write"]
                  /\ UNCHANGED <<idx, results>>
    /\ UNCHANGED <<storeVars, dev, batch, prev, notified>>
    /\ UNCHANGED <<cryptoVars, notifyVars>>

\* What a provider does with a message handed to it.
Outcomes == {"ok", "raise"}

\* Mutant: the call to the collaborator is not wrapped in try/except.
Caught_not(outcome, next) == IF outcome = "raise" THEN "raised" ELSE next

\* try: ... except Exception: print(...); return None
Caught(outcome, next) == next

\* How send_checkin_notifications ends when a provider does o.
NotifyCall(o) == Caught(o, "returned")

\* The CheckInRecord's transaction: insert unless the lookup found one. The
\* notification collaborator is called for the check-in just created; an
\* exception leaving it would fail the record and roll its insert back.
CkWrite(p) ==
    /\ pc[p] = "ck_write"
    /\ LET r == cur[p]
           i == Here(p)
           row == CheckInRow(r.user, r.session, r.event, dev[p], r.ts)
       IN IF found[p].row
          THEN /\ Settle(p, i, Resolved("already_existed", r.user, "", r))
               /\ UNCHANGED <<check_ins, notified>>
          ELSE \E o \in Outcomes :
               /\ notified' = notified (+) SetToBag({row})
               /\ IF NotifyCall(o) = "raised"
                  THEN /\ UNCHANGED check_ins
                       /\ Settle(p, i, Resolved("rejected", r.user, "notification_failed", r))
                  ELSE /\ check_ins' = check_ins (+) SetToBag({row})
                       /\ Settle(p, i, Resolved("created", r.user,
                             IF o = "raise" THEN "notification_error_logged" ELSE "", r))
    /\ UNCHANGED <<users, registrations, offline_devices, dev, batch, prev>>
    /\ UNCHANGED <<cryptoVars, notifyVars>>

\* What the call reported for the last NewRegistration carrying phone ph.
NoReport == [status |-> "none", user |-> NoVal]

LastReport(b, res, ph, old) ==
    LET S == {i \in DOMAIN b : b[i] = "reg" /\ res[i].phone = ph /\ res[i].status # "none"}
        last == CHOOSE i \in S : \A j \in S : j <= i
    IN IF S = {} THEN old ELSE [status |-> res[last].status, user |-> res[last].user]

\* The SyncResult (or the failure) is returned to the device.
Return(p) ==
    /\ pc[p] \in {"done", "failed"}
    /\ prev' = [ph \in Phones |-> LastReport(batch[p], results[p], ph, prev[ph])]
    /\ pc' = [pc EXCEPT ![p] = "idle"]
    /\ dev' = [dev EXCEPT ![p] = NoVal]
    /\ batch' = [batch EXCEPT ![p] = <<>>]
    /\ results' = [results EXCEPT ![p] = <<>>]
    /\ idx' = [idx EXCEPT ![p] = 0]
    /\ UNCHANGED <<storeVars, cur, found, notified>>
    /\ UNCHANGED <<cryptoVars, notifyVars>>

(***************************************************************************)
(* Initial states.                                                         *)
(***************************************************************************)
\* The store before any sync: empty, or holding one User created online (by
\* the registration endpoint) who is not yet registered for the Event.
InitialUsers == {<<>>, <<UserRow(1, NoVal, 1)>>}

SyncInit ==
    /\ users \in InitialUsers
    /\ registrations = EmptyBag
    /\ check_ins = EmptyBag
    /\ offline_devices = {}
    /\ pc = [p \in Callers |-> "idle"]
    /\ dev = [p \in Callers |-> NoVal]
    /\ batch = [p \in Callers |-> <<>>]
    /\ idx = [p \in Callers |-> 0]
    /\ cur = [p \in Callers |-> NoRecord]
    /\ found = [p \in Callers |-> NoFind]
    /\ results = [p \in Callers |-> <<>>]
    /\ prev = [ph \in Phones |-> NoReport]
    /\ notified = EmptyBag

(***************************************************************************)
(* Template encryption: app/config.py and the User properties.             *)
(***************************************************************************)
\* Python values a template property is given or holds.
PyNone == [kind |-> "none"]
Str(t) == [kind |-> "str", s |-> t]
Bytes == [kind |-> "bytes"]
\* A Fernet token: a str that only the key that made it decrypts.
Token(k, v, iv) == [kind |-> "token", key |-> k, pt |-> v, iv |-> iv]

MaxIv == 1
IVs == 1..MaxIv
FernetKeys == {"k1", "k2"}
\* _fernet_cipher = None
NoCipher == "none"

\* bool(v)
Truthy(v) == v.kind \in {"token", "bytes"} \/ (v.kind = "str" /\ v.s # "")
\* isinstance(v, str)
IsStr(v) == v.kind \in {"str", "token"}

\* What a caller may assign to a template property.
Assignable ==
    {PyNone, Str(""), Str("t1"), Bytes, Token("k1", Str("t1"), 1)}

\* The process environment config.py reads, and whether the cryptography
\* library can be imported.
Environments ==
    [ENCRYPTION_KEY : {"unset", "empty", "invalid", "k1"},
     FLASK_CONFIG : {"unset", "test"},
     TEST_ENCRYPTION_KEY : {"unset", "invalid", "k2"},
     cryptography : BOOLEAN]

\* bool(os.getenv(name))
EnvSet(x) == x \notin {"unset", "empty"}

\* config.py at import: the key is ENCRYPTION_KEY, or TEST_ENCRYPTION_KEY
\* under FLASK_CONFIG=test; the cipher is Fernet(key), or None when no key
\* is set, the library is missing or Fernet refuses the key.
FernetCipher(e) ==
    LET key == IF e.FLASK_CONFIG = "test" /\ EnvSet(e.TEST_ENCRYPTION_KEY)
               THEN e.TEST_ENCRYPTION_KEY ELSE e.ENCRYPTION_KEY
    IN IF EnvSet(key) /\ e.cryptography /\ key \in FernetKeys THEN key ELSE NoCipher

\* Mutant: the setter stores what it is given.
SetterStores_plain(c, v, iv) == IF Truthy(v) THEN v ELSE PyNone

\* The column value the setter stores: the token when the cipher is there
\* (None when encrypting raises: v has no encode()), the value itself when
\* there is no cipher, None for an empty value.
SetterStores(c, v, iv) ==
    IF c # NoCipher /\ Truthy(v)
    THEN IF IsStr(v) THEN Token(c, v, iv) ELSE PyNone
    ELSE IF Truthy(v) THEN v ELSE PyNone

\* model_logger.error in the setter: encrypting raised.
SetterLogsError(c, v) == c # NoCipher /\ Truthy(v) /\ ~IsStr(v)

\* model_logger.warning in the setter: stored as plain text although
\* ENCRYPTION_KEY is set.
SetterWarns(c, v, e) == c = NoCipher /\ Truthy(v) /\ EnvSet(e.ENCRYPTION_KEY)

\* Mutant: the getter decrypts outside try/except.
GetterReturns_unguarded(c, stored) ==
    IF c # NoCipher /\ Truthy(stored)
    THEN IF stored.kind = "token" /\ stored.key = c THEN stored.pt
         ELSE [kind |-> "raises"]
    ELSE stored

\* Mutant: the getter returns the column as it is stored.
GetterReturns_raw(c, stored) == stored

\* What the getter returns: the decrypted token when the cipher is there
\* (None when decrypting raises), else the column value.
GetterReturns(c, stored) ==
    IF c # NoCipher /\ Truthy(stored)
    THEN IF stored.kind = "token" /\ stored.key = c THEN stored.pt ELSE PyNone
    ELSE stored

(***************************************************************************)
(* FingerprintService and SyncService.__init__ (app/services.py).          *)
(***************************************************************************)
\* No instance has been built.
Unbuilt == "unbuilt"
\* SyncService().fingerprint_service = None
NoService == "no_service"
\* An exception left the constructor.
Raises == "raises"

\* Mutant: Fernet(key) is called outside try/except.
FingerprintCipher_unguarded(e) ==
    IF ~EnvSet(e.ENCRYPTION_KEY) THEN NoCipher
    ELSE IF e.ENCRYPTION_KEY \in FernetKeys THEN e.ENCRYPTION_KEY ELSE Raises

\* FingerprintService.__init__: self.cipher is Fernet(ENCRYPTION_KEY), or
\* None when the key is missing or Fernet refuses it.
FingerprintCipher(e) ==
    IF ~EnvSet(e.ENCRYPTION_KEY) THEN NoCipher
    ELSE IF e.ENCRYPTION_KEY \in FernetKeys THEN e.ENCRYPTION_KEY ELSE NoCipher

\* SyncService.__init__: the internal FingerprintService, or None when
\* building it raised.
SyncFingerprintService(e) ==
    IF FingerprintCipher(e) = Raises THEN NoService ELSE FingerprintCipher(e)

\* A str that utf-8 cannot encode.
LoneSurrogate == Str("lone_surrogate")
\* str(template_data)
StrOf(v) == IF IsStr(v) THEN v
            ELSE IF v = PyNone THEN Str("None") ELSE Str("b_repr")
\* template_data.encode('utf-8') succeeds
Encodable(v) == v # LoneSurrogate

\* Arguments of encrypt_template and decrypt_template.
Templates == Assignable \cup {LoneSurrogate}
Ciphertexts ==
    {PyNone, Str(""), Str("t1"), Bytes} \cup
    {Token(k, Str("t1"), 1) : k \in FernetKeys}

\* Mutant: without a cipher the template is returned as it is.
encrypt_template_passthrough(c, v, iv) ==
    IF c = NoCipher THEN v
    ELSE IF Encodable(StrOf(v)) THEN Token(c, StrOf(v), iv) ELSE PyNone

\* FingerprintService.encrypt_template
encrypt_template(c, v, iv) ==
    IF c = NoCipher THEN PyNone
    ELSE IF Encodable(StrOf(v)) THEN Token(c, StrOf(v), iv) ELSE PyNone

\* FingerprintService.decrypt_template
decrypt_template(c, v) ==
    IF c = NoCipher THEN PyNone
    ELSE IF ~Truthy(v) THEN PyNone
    ELSE IF v.kind = "token" /\ v.key = c THEN v.pt ELSE PyNone

NoCall == [called |-> FALSE, cipher |-> NoCipher, arg |-> PyNone, out |-> PyNone]

\* FingerprintService()
NewFingerprintService ==
    /\ loaded
    /\ env.cryptography
    /\ fp' = FingerprintCipher(env)
    /\ UNCHANGED <<env, cipher, loaded, col, given, warned, logged, got, svc, enc, dec>>
    /\ UNCHANGED <<syncVars, notifyVars>>

\* SyncService()
NewSyncService ==
    /\ loaded
    /\ env.cryptography
    /\ svc' = SyncFingerprintService(env)
    /\ UNCHANGED <<env, cipher, loaded, col, given, warned, logged, got, fp, enc, dec>>
    /\ UNCHANGED <<syncVars, notifyVars>>

\* The ciphers of the services built.
Built == {fp, svc} \ {Unbuilt, NoService, Raises}

\* service.encrypt_template(v)
EncryptTemplate ==
    /\ \E c \in Built, v \in Templates, iv \in IVs :
          enc' = [called |-> TRUE, cipher |-> c, arg |-> v,
                  out |-> encrypt_template(c, v, iv)]
    /\ UNCHANGED <<env, cipher, loaded, col, given, warned, logged, got, fp, svc, dec>>
    /\ UNCHANGED <<syncVars, notifyVars>>

\* service.decrypt_template(v)
DecryptTemplate ==
    /\ \E c \in Built, v \in Ciphertexts :
          dec' = [called |-> TRUE, cipher |-> c, arg |-> v,
                  out |-> decrypt_template(c, v)]
    /\ UNCHANGED <<env, cipher, loaded, col, given, warned, logged, got, fp, svc, enc>>
    /\ UNCHANGED <<syncVars, notifyVars>>

FingerprintIdle ==
    /\ fp = Unbuilt
    /\ svc = Unbuilt
    /\ enc = NoCall
    /\ dec = NoCall

Fields == {1, 2}
NotGiven == [v |-> PyNone, had_cipher |-> FALSE, cipher |-> NoCipher,
             key_set |-> FALSE]
\* The property has not been read.
NotRead == [kind |-> "unread"]

\* import app.config
LoadConfig ==
    /\ ~loaded
    /\ loaded' = TRUE
    /\ cipher' = FernetCipher(env)
    /\ UNCHANGED <<env, col, given, warned, logged, got, fpVars>>
    /\ UNCHANGED <<syncVars, notifyVars>>

\* user.fingerprint_template_<k> = v
SetTemplate(k) ==
    /\ loaded
    /\ \E v \in Assignable, iv \in IVs :
          /\ col' = [col EXCEPT ![k] = SetterStores(cipher, v, iv)]
          /\ given' = [given EXCEPT ![k] =
                [v |-> v, had_cipher |-> cipher # NoCipher, cipher |-> cipher,
                 key_set |-> EnvSet(env.ENCRYPTION_KEY)]]
          /\ got' = [got EXCEPT ![k] = NotRead]
          /\ warned' = [warned EXCEPT ![k] = SetterWarns(cipher, v, env)]
          /\ logged' = [logged EXCEPT ![k] = SetterLogsError(cipher, v)]
    /\ UNCHANGED <<env, cipher, loaded, fpVars>>
    /\ UNCHANGED <<syncVars, notifyVars>>

\* user.fingerprint_template_<k>
GetTemplate(k) ==
    /\ loaded
    /\ got' = [got EXCEPT ![k] = GetterReturns(cipher, col[k])]
    /\ UNCHANGED <<env, cipher, loaded, col, given, warned, logged, fpVars>>
    /\ UNCHANGED <<syncVars, notifyVars>>

\* The process ends and a new one starts in some environment; the row stays
\* in the database.
Restart ==
    /\ loaded
    /\ loaded' = FALSE
    /\ cipher' = NoCipher
    /\ env' \in Environments
    /\ got' = [k \in Fields |-> NotRead]
    /\ fp' = Unbuilt
    /\ svc' = Unbuilt
    /\ UNCHANGED <<col, given, warned, logged, enc, dec>>
    /\ UNCHANGED <<syncVars, notifyVars>>

CryptoIdle ==
    /\ env = [ENCRYPTION_KEY |-> "unset", FLASK_CONFIG |-> "unset",
              TEST_ENCRYPTION_KEY |-> "unset", cryptography |-> TRUE]
    /\ cipher = NoCipher
    /\ loaded = FALSE
    /\ col = [k \in Fields |-> PyNone]
    /\ given = [k \in Fields |-> NotGiven]
    /\ warned = [k \in Fields |-> FALSE]
    /\ logged = [k \in Fields |-> FALSE]
    /\ got = [k \in Fields |-> NotRead]
    /\ FingerprintIdle

CryptoInit ==
    /\ env \in Environments
    /\ cipher = NoCipher
    /\ loaded = FALSE
    /\ col = [k \in Fields |-> PyNone]
    /\ given = [k \in Fields |-> NotGiven]
    /\ warned = [k \in Fields |-> FALSE]
    /\ logged = [k \in Fields |-> FALSE]
    /\ got = [k \in Fields |-> NotRead]
    /\ FingerprintIdle

(***************************************************************************)
(* NotificationService.                                                    *)
(***************************************************************************)
\* What the constructor read and whether africastalking.initialize raised.
Services ==
    [at_username : BOOLEAN, at_api_key : BOOLEAN, at_init_ok : BOOLEAN,
     resend_api_key : BOOLEAN, admin_email : BOOLEAN]

NotifiedUsers == [phone : {NoVal} \cup Phones, email : {NoVal} \cup Emails,
                  is_vip : BOOLEAN]

\* Mutant: send_checkin_sms does not look at self.sms_service.
SmsService_unchecked(c) == TRUE

\* self.sms_service after __init__
SmsService(c) == c.at_username /\ c.at_api_key /\ c.at_init_ok

Raised(h) == Cardinality({i \in DOMAIN h : h[i].outcome = "raise"})

\* send_checkin_notifications is called for a user
Notify ==
    /\ npc = "idle"
    /\ nuser' \in NotifiedUsers
    /\ npc' = "sms"
    /\ handed' = <<>>
    /\ nerrors' = 0
    /\ UNCHANGED ncfg
    /\ UNCHANGED <<syncVars, cryptoVars>>

\* send_checkin_sms
SendSms ==
    /\ npc = "sms"
    /\ IF ~SmsService(ncfg) \/ nuser.phone = NoVal
       THEN /\ npc' = "email"
            /\ UNCHANGED <<handed, nerrors>>
       ELSE \E o \in Outcomes :
            /\ handed' = Append(handed, [to |-> "sms", outcome |-> o])
            /\ nerrors' = IF o = "raise" THEN nerrors + 1 ELSE nerrors
            /\ npc' = Caught(o, "email")
    /\ UNCHANGED <<ncfg, nuser>>
    /\ UNCHANGED <<syncVars, cryptoVars>>

\* The body of the try block of send_checkin_email and send_vip_alerts: the
\* CheckIn query, then resend.Emails.send.
EmailAttempt(to, next) ==
    \/ /\ handed' = Append(handed, [to |-> "db", outcome |-> "raise"])
       /\ nerrors' = nerrors + 1
       /\ npc' = Caught("raise", next)
    \/ \E o \in Outcomes :
       /\ handed' = handed \o <<[to |-> "db", outcome |-> "ok"],
                                [to |-> to, outcome |-> o]>>
       /\ nerrors' = IF o = "raise" THEN nerrors + 1 ELSE nerrors
       /\ npc' = Caught(o, next)

AfterEmail == IF nuser.is_vip THEN "vip" ELSE "returned"

\* send_checkin_email
SendEmail ==
    /\ npc = "email"
    /\ IF ~ncfg.resend_api_key \/ nuser.email = NoVal
       THEN /\ npc' = AfterEmail
            /\ UNCHANGED <<handed, nerrors>>
       ELSE EmailAttempt("email", AfterEmail)
    /\ UNCHANGED <<ncfg, nuser>>
    /\ UNCHANGED <<syncVars, cryptoVars>>

\* send_vip_alerts
SendVipAlert ==
    /\ npc = "vip"
    /\ IF ~ncfg.resend_api_key \/ ~ncfg.admin_email
       THEN /\ npc' = "returned"
            /\ UNCHANGED <<handed, nerrors>>
       ELSE EmailAttempt("admin", "returned")
    /\ UNCHANGED <<ncfg, nuser>>
    /\ UNCHANGED <<syncVars, cryptoVars>>

\* send_checkin_notifications has returned to its caller
Returned ==
    /\ npc = "returned"
    /\ npc' = "idle"
    /\ UNCHANGED <<ncfg, nuser, handed, nerrors>>
    /\ UNCHANGED <<syncVars, cryptoVars>>

NoUser == [phone |-> NoVal, email |-> NoVal, is_vip |-> FALSE]

NotifyIdle ==
    /\ npc = "idle"
    /\ ncfg = [at_username |-> FALSE, at_api_key |-> FALSE, at_init_ok |-> FALSE,
               resend_api_key |-> FALSE, admin_email |-> FALSE]
    /\ nuser = NoUser
    /\ handed = <<>>
    /\ nerrors = 0

NotifyInit ==
    /\ npc = "idle"
    /\ ncfg \in Services
    /\ nuser = NoUser
    /\ handed = <<>>
    /\ nerrors = 0

SyncIdle == SyncInit /\ users = <<>>

Init == SyncInit /\ CryptoIdle /\ NotifyIdle

Next ==
    \E p \in Callers :
        \/ StartSync(p)
        \/ RegLookup(p)
        \/ RegWrite(p)
        \/ CkLookup(p)
        \/ CkWrite(p)
        \/ Return(p)

Spec == Init /\ [][Next]_vars

NextConc ==
    \E p \in Callers :
        \/ StartSyncConcurrent(p)
        \/ RegLookup(p)
        \/ RegWrite(p)
        \/ CkLookup(p)
        \/ CkWrite(p)
        \/ Return(p)

SpecConc == Init /\ [][NextConc]_vars

InitCrypto == SyncIdle /\ CryptoInit /\ NotifyIdle

NextCrypto ==
    \/ LoadConfig
    \/ \E k \in Fields : SetTemplate(k)
    \/ \E k \in Fields : GetTemplate(k)
    \/ Restart

SpecCrypto == InitCrypto /\ [][NextCrypto]_vars

NextFingerprint ==
    \/ LoadConfig
    \/ NewFingerprintService
    \/ NewSyncService
    \/ EncryptTemplate
    \/ DecryptTemplate

SpecFingerprint == InitCrypto /\ [][NextFingerprint]_vars

InitNotify == SyncIdle /\ CryptoIdle /\ NotifyInit

NextNotify ==
    \/ Notify
    \/ SendSms
    \/ SendEmail
    \/ SendVipAlert
    \/ Returned

SpecNotify == InitNotify /\ [][NextNotify]_vars


(***************************************************************************)
(* Claims about the reconciler.                                            *)
(***************************************************************************)
Settled(p) == {i \in DOMAIN results[p] : results[p][i].status # "none"}
SettledRegs(p) == {i \in Settled(p) : batch[p][i] = "reg"}
SettledCks(p) == {i \in Settled(p) : batch[p][i] = "ck"}
RowsWithPhone(ph) == Cardinality(UsersBy(users, "phone", ph))
RowsWithEmail(em) == Cardinality(UsersBy(users, "email", em))

ResolvedByPhone(ph) ==
    /\ prev[ph].status \in {"created", "already_existed"}
    /\ prev[ph].user \in DOMAIN users
    /\ users[prev[ph].user].phone = ph

C4_OneRegistrationPerPair ==
    \A r \in BagToSet(registrations) : CopiesIn(r, registrations) = 1

\* C4 witness: two overlapping calls both found the user unregistered; one
\* inserted the Registration, the other hit the unique constraint.
C4_Witness ==
    \E p, q \in Callers :
        /\ p # q /\ pc[p] = "done" /\ pc[q] = "done"
        /\ Len(batch[p]) = 1 /\ Len(batch[q]) = 1
        /\ results[q][1].note = "registration_conflict"
        /\ results[p][1].user = results[q][1].user
        /\ results[p][1].status = "already_existed"
        /\ results[p][1].note = ""
        /\ HasRegistration(registrations, results[q][1].user, DeviceEvent)

\* C5: every User row has a fallback_id (never NULL), no two rows share one,
\* and no step removes a row or changes the fallback_id of an existing row.
C5_FallbackStable ==
    /\ [](/\ \A i \in DOMAIN users : users[i].fallback_id # NoVal
          /\ \A i, j \in DOMAIN users :
                users[i].fallback_id = users[j].fallback_id => i = j)
    /\ [][\A i \in DOMAIN users :
            /\ i \in DOMAIN users'
            /\ users'[i].fallback_id = users[i].fallback_id]_vars

\* C5 witness: two users exist and a later sync call that referenced one of
\* them (a re-submitted registration and a check-in) is done.
C5_Witness ==
    \E p \in Callers :
        /\ pc[p] = "done"
        /\ Len(users) = 2
        /\ \E i \in SettledRegs(p) : results[p][i].status = "already_existed"
        /\ \E i \in SettledCks(p) : results[p][i].status = "created"

\* The writes of a record reported created are in the store.
WritesPresent(p, i) ==
    LET res == results[p][i]
    IN IF batch[p][i] = "reg"
       THEN /\ res.user \in DOMAIN users
            /\ users[res.user].phone = res.phone
            /\ HasRegistration(registrations, res.user, DeviceEvent)
       ELSE \E c \in BagToSet(check_ins) :
               /\ c.user_id = res.user
               /\ c.device_id = dev[p]
               /\ c.is_synced

RowsWithKey(u, s, ts) ==
    LET hits == {c \in BagToSet(check_ins) : /\ c.user_id = u
                                             /\ c.session_id = s
                                             /\ c.created_at_local = ts}
        RECURSIVE Copies(_)
        Copies(S) == IF S = {} THEN 0
                     ELSE LET c == CHOOSE x \in S : TRUE
                          IN CopiesIn(c, check_ins) + Copies(S \ {c})
    IN Copies(hits)

RowOf(p) == [user_id |-> cur[p].user, session_id |-> cur[p].session,
             event_id |-> cur[p].event, device_id |-> dev[p],
             is_synced |-> TRUE, created_at_local |-> cur[p].ts]

C8_Confidential ==
    \A k \in Fields :
        (given[k].had_cipher /\ Truthy(given[k].v))
        => /\ col[k] # given[k].v
           /\ \/ col[k] = PyNone
              \/ /\ col[k].kind = "token"
                 /\ col[k].pt = given[k].v
                 /\ col[k].key \in FernetKeys

\* C8 witness: with the cipher available a non-empty string was assigned to
\* one property and a token is stored; a value that cannot be encrypted was
\* assigned to the other and None is stored.
C8_Witness ==
    /\ given[1].had_cipher /\ given[1].v = Str("t1") /\ col[1].kind = "token"
    /\ given[2].had_cipher /\ given[2].v = Bytes /\ col[2] = PyNone

\* C9 as stated: whenever a non-empty template was stored as plaintext
\* because the cipher was unavailable, the assignment emitted the warning,
\* whether or not ENCRYPTION_KEY is set.
C9_AsStated ==
    \A k \in Fields :
        (~given[k].had_cipher /\ Truthy(given[k].v) /\ col[k] = given[k].v)
        => warned[k]

C17_GetterNeverRaises ==
    \A k \in Fields :
        /\ loaded => ENABLED GetTemplate(k)
        /\ got[k] # NotRead
              => /\ got[k].kind # "raises"
                 /\ cipher = NoCipher => got[k] = col[k]
                 /\ (/\ cipher # NoCipher
                     /\ Truthy(col[k])
                     /\ ~(col[k].kind = "token" /\ col[k].key = cipher))
                       => got[k] = PyNone

\* C17 witness: a template stored as plaintext while the cipher was
\* unavailable is read with the cipher available, and the read returns None.
C17_Witness ==
    \E k \in Fields :
        /\ ~given[k].had_cipher
        /\ given[k].v = Str("t1")
        /\ col[k] = Str("t1")
        /\ cipher # NoCipher
        /\ got[k] = PyNone

(***************************************************************************)
(* Claims about the degraded mode and the FingerprintService.              *)
(***************************************************************************)
\* The key config.py hands to Fernet.
EffectiveKey(e) ==
    IF e.FLASK_CONFIG = "test" /\ EnvSet(e.TEST_ENCRYPTION_KEY)
    THEN e.TEST_ENCRYPTION_KEY ELSE e.ENCRYPTION_KEY

\* C14: config.py can always be loaded, and FingerprintService and
\* SyncService can always be built once it is; no constructor raises; with
\* the key config.py uses missing or invalid its cipher is None, and with
\* ENCRYPTION_KEY missing or invalid the FingerprintService's cipher is None
\* and the SyncService holds no usable cipher.
C14_DegradedButRunning ==
    /\ ~loaded => ENABLED LoadConfig
    /\ (loaded /\ env.cryptography)
          => (ENABLED NewFingerprintService /\ ENABLED NewSyncService)
    /\ (loaded /\ EffectiveKey(env) \notin FernetKeys) => cipher = NoCipher
    /\ fp # Raises
    /\ svc # Raises
    /\ env.ENCRYPTION_KEY \notin FernetKeys
          => /\ fp \in {Unbuilt, NoCipher}
             /\ svc \in {Unbuilt, NoCipher, NoService}

\* C14 witness: with an invalid ENCRYPTION_KEY config.py is loaded and both
\* services are built, every cipher None.
C14_Witness ==
    /\ env.ENCRYPTION_KEY = "invalid"
    /\ env.FLASK_CONFIG = "unset"
    /\ loaded
    /\ cipher = NoCipher
    /\ fp = NoCipher
    /\ svc = NoCipher

\* C15: encrypt_template returns a token of the template or None, never the
\* template it was given, and None when the service has no cipher or encoding the
\* template fails; decrypt_template returns None when the service has no
\* cipher, the argument is empty, or it is not a token of the cipher's key.
C15_EncryptOutcomes ==
    /\ enc.called
          => /\ enc.arg # PyNone => enc.out # enc.arg
             /\ \/ enc.out = PyNone
                \/ /\ enc.out.kind = "token"
                   /\ enc.out.key = enc.cipher
                   /\ enc.out.pt = StrOf(enc.arg)
             /\ (enc.cipher = NoCipher \/ ~Encodable(StrOf(enc.arg)))
                   => enc.out = PyNone
    /\ (/\ dec.called
        /\ \/ dec.cipher = NoCipher
           \/ ~Truthy(dec.arg)
           \/ dec.arg.kind # "token"
           \/ dec.arg.key # dec.cipher)
          => dec.out = PyNone

\* C15 witness: a service without a cipher was asked to encrypt a non-empty
\* template and to decrypt a token, and returned None both times.
C15_Witness ==
    /\ enc.called /\ enc.cipher = NoCipher /\ enc.arg = Str("t1")
    /\ enc.out = PyNone
    /\ dec.called /\ dec.cipher = NoCipher /\ dec.arg.kind = "token"
    /\ dec.out = PyNone

(***************************************************************************)
(* Claims about the NotificationService.                                   *)
(***************************************************************************)
\* C10: whatever the SMS provider, the email provider or the database do,
\* send_checkin_notifications never ends by raising: every error raised
\* inside it is logged, and the call goes on to return to its caller.
C10_BestEffort ==
    /\ npc # "raised"
    /\ nerrors = Raised(handed)
    /\ npc \in {"sms", "email", "vip", "returned"}
          => ENABLED (SendSms \/ SendEmail \/ SendVipAlert \/ Returned)

\* C10 witness: the SMS provider and the email provider both raised and the
\* call returned.
C10_Witness ==
    /\ npc = "returned"
    /\ \E i \in DOMAIN handed : handed[i] = [to |-> "sms", outcome |-> "raise"]
    /\ \E i \in DOMAIN handed : handed[i] = [to |-> "email", outcome |-> "raise"]

\* Where the email attempt starts in handed: after the SMS, if one was handed.
EmailStart == IF handed # <<>> /\ handed[1].to = "sms" THEN 2 ELSE 1

\* C18: nothing is handed to a collaborator before the SMS step has ended and
\* an SMS is only ever the first thing handed; an SMS is handed only when the
\* SMS service was initialised (both credentials set and initialize did not
\* raise) and the user has a phone, an email only when
\* the Resend API key is set and the user has an email; and once the email
\* step has ended, whatever the SMS step did, the email attempt was made
\* whenever the key is set and the user has an email.
C18_SmsThenEmail ==
    /\ npc = "sms" => handed = <<>>
    /\ \A i \in DOMAIN handed :
          /\ handed[i].to = "sms"
                => /\ i = 1
                   /\ ncfg.at_username /\ ncfg.at_api_key /\ ncfg.at_init_ok
                   /\ nuser.phone # NoVal
          /\ handed[i].to = "email"
                => /\ ncfg.resend_api_key
                   /\ nuser.email # NoVal
                   /\ i = EmailStart + 1
    /\ (/\ npc \in {"vip", "returned"}
        /\ ncfg.resend_api_key
        /\ nuser.email # NoVal)
          => /\ Len(handed) >= EmailStart
             /\ handed[EmailStart].to = "db"
             /\ handed[EmailStart].outcome = "ok"
                   => /\ Len(handed) > EmailStart
                      /\ handed[EmailStart + 1].to = "email"

\* C18 witness: the SMS provider raised, and the email was handed to its
\* provider afterwards.
C18_Witness ==
    /\ npc = "returned"
    /\ Len(handed) >= 3
    /\ handed[1] = [to |-> "sms", outcome |-> "raise"]
    /\ handed[3] = [to |-> "email", outcome |-> "ok"]


=============================================================================
